---- MODULE Spec2Model ----
(***************************************************************************)
(* PTY-backed process spawning and reaping (src/main/jni/pty.c).           *)
(*                                                                         *)
(* createSubprocess: builds a termios profile, calls forkpty, and then     *)
(*   - in the child: chdir, marshals envp and argv, execvpe, exit(1);      *)
(*   - in the parent: NewIntArray(2), fill {pid, master_fd}, return.       *)
(* waitFor: waitpid(pid, &status, 0) and decoding of status.               *)
(*                                                                         *)
(* One spawn call is one index of Calls; the child it forks is tracked     *)
(* under the same index.  The waitFor calls are made one after the other   *)
(* by one waiting thread.                                                  *)
(***************************************************************************)
EXTENDS Integers, Sequences, FiniteSets, TLC

(* ---------------------------- bounds ----------------------------------- *)
\* longest cmdarray the caller passes
MaxCmd == 2
\* longest envarray the caller passes
MaxEnv == 1
\* number of createSubprocess calls (threads) the model tracks
NumCalls == 2
Calls == 1..NumCalls

(* ---------------------------- values ----------------------------------- *)
\* The null pointer / null reference.  Every other pointer value of the
\* model is a non-empty sequence (a C string holds at least its 0 byte, an
\* allocated vector at least its sentinel slot, a handle two ints).
NULL == <<>>

\* A slot of a malloc'ed vector that has not been written yet.
Junk == <<-1>>

\* Java strings of the caller: NUL-free ASCII texts ("a", "bc").
Strings == {<<97>>, <<98, 99>>}

RECURSIVE SeqsUpTo(_, _)
SeqsUpTo(S, n) ==
    IF n = 0 THEN {<<>>}
    ELSE LET shorter == SeqsUpTo(S, n - 1)
         IN  shorter \cup {Append(q, x) : q \in {r \in shorter : Len(r) = n - 1}, x \in S}

\* the String[] arrays the caller can pass as cmdarray and as envarray
CmdArrays == SeqsUpTo(Strings, MaxCmd)
EnvArrays == SeqsUpTo(Strings, MaxEnv)

\* GetStringUTFChars: the modified UTF-8 bytes of the string followed by
\* the terminating 0 byte (ASCII chars map to themselves).
GetStringUTFChars(js) == js \o <<0>>

\* index of the first 0 byte of a C string
RECURSIVE FirstNul(_, _)
FirstNul(p, i) == IF p[i] = 0 THEN i ELSE FirstNul(p, i + 1)

\* strdup: a fresh copy of the bytes up to and including the first 0 byte
strdup(p) == SubSeq(p, 1, FirstNul(p, 1))

\* the text of a C string: its bytes before the terminator
Text(p) == SubSeq(p, 1, FirstNul(p, 1) - 1)

(* wait status words, as the kernel builds them and <sys/wait.h> reads them *)
W_EXITCODE(k) == k * 256
WIFEXITED(s) == (s % 128) = 0
WEXITSTATUS(s) == (s \div 256) % 256

\* How a process terminated: by exit with code n, or killed by signal n.
Exited(k) == [kind |-> "exited", n |-> k]
Signaled(sig) == [kind |-> "signaled", n |-> sig]
NotTerminated == [kind |-> "none", n |-> 0]

\* the status word the kernel stores for a termination
StatusWord(t) == IF t.kind = "exited" THEN W_EXITCODE(t.n) ELSE t.n

\* exit codes a started program may terminate with (samples of 0..255)
ExitCodes == {0, 7, 255}
\* signals that may kill a started program: SIGKILL, SIGSEGV
Signals == {9, 11}
\* the ways a started program may terminate
Terminations == {Exited(k) : k \in ExitCodes} \cup {Signaled(g) : g \in Signals}
\* the end of a process that makes an invalid memory access: SIGSEGV
Crashes == {Signaled(11)}
\* the values an int that was never written may hold (samples: the status
\* words of every termination above)
StatusValues == {StatusWord(t) : t \in Terminations}

\* the fixed termios profile of createSubprocess
\* memset(&tt, 0, sizeof(tt))
ZeroMode ==
    [c_iflag |-> {}, c_oflag |-> {}, c_lflag |-> {}, c_cflag |-> {},
     c_cc    |-> [VINTR |-> 0, VQUIT |-> 0, VERASE |-> 0, VKILL |-> 0, VEOF |-> 0,
                  VSTOP |-> 0, VSUSP |-> 0, VSTART |-> 0, VMIN |-> 0, VTIME |-> 0]]
Profile ==
    [c_iflag |-> {"ICRNL", "IXON", "IXANY"},
     c_oflag |-> {"OPOST", "ONLCR"},
     c_lflag |-> {"ISIG", "ICANON", "ECHO", "ECHOE", "ECHOK", "ECHONL", "IEXTEN"},
     c_cflag |-> {"CS8", "CREAD"},
     c_cc    |-> [VINTR |-> 3, VQUIT |-> 28, VERASE |-> 127, VKILL |-> 21, VEOF |-> 4,
                  VSTOP |-> 19, VSUSP |-> 26, VSTART |-> 17, VMIN |-> 1, VTIME |-> 0]]

VARIABLES
    cmdarray,     \* [Calls -> CmdArrays] argument cmdarray of the call
    envarray,     \* [Calls -> EnvArrays] argument envarray of the call
    ppc,          \* [Calls -> ...]     position of the calling (parent) thread
    tt,           \* [Calls -> mode]    local struct termios tt
    pid,          \* [Calls -> Int]     local pid in the parent
    master_fd,    \* [Calls -> Int]     local master_fd in the parent
    result,       \* [Calls -> ...]     local result: NULL or the int[2] array
    handle,       \* [Calls -> ...]     value returned to the caller (NULL or <<pid, fd>>)
    openFds,      \* descriptors open in the parent process
    nextPid,      \* next process id the kernel hands out
    cpc,          \* [Calls -> ...]     position / life cycle of the child of the call
    slaveMode,    \* [Calls -> mode]    line discipline of the child's controlling terminal
    envp,         \* [Calls -> vector]  child's envp
    argv,         \* [Calls -> vector]  child's argv
    ci,           \* [Calls -> Nat]     child's loop index i
    cterm,        \* [Calls -> ...]     how the child terminated
    cfail,        \* [Calls -> ...]     why the child ended before running a program
    execArgs,     \* [Calls -> ...]     what execvpe was called with (NULL: not called)
    childOps,     \* [Calls -> SUBSET]  kinds of calls the child made after the fork
    allocFailed,  \* [Calls -> BOOLEAN] a malloc/strdup of the marshalling returned NULL
    wpc,          \* position of the current waitFor call
    warg,         \* argument pid of waitFor
    wtarget,      \* the call whose unreaped child the pid named at entry (0: none)
    wret,         \* return value of waitpid
    wwritten,     \* waitpid stored into status
    wstatus,      \* local status
    wresult,      \* value waitFor returned
    wcalls,       \* number of waitpid invocations of the current waitFor call
    hist          \* [Calls -> ...]     what the call and its child have invoked so far

vars == <<cmdarray, envarray, ppc, tt, pid, master_fd, result, handle, openFds, nextPid,
          cpc, slaveMode, envp, argv, ci, cterm, cfail, execArgs, childOps,
          allocFailed, wpc, warg, wtarget, wret, wwritten, wstatus, wresult,
          wcalls, hist>>

parentVars == <<ppc, tt, pid, master_fd, result, handle, openFds, nextPid>>
inputVars  == <<cmdarray, envarray>>
childVars  == <<cpc, slaveMode, envp, argv, ci, cterm, cfail, execArgs, childOps, allocFailed>>
waitVars   == <<wpc, warg, wtarget, wret, wwritten, wstatus, wresult, wcalls>>

\* nothing invoked yet: the number of invocations of forkpty, NewIntArray,
\* chdir, execvpe and LOGE, the child-side steps in the order taken, and
\* the process and the master descriptor the call's forkpty created
NoHistory ==
    [forkpty |-> 0, newarray |-> 0, chdir |-> 0, exec |-> 0, logs |-> 0, steps |-> <<>>,
     child |-> 0, master |-> -1]

(* ---------------------------- Init ------------------------------------- *)
\* State before any call has run: call 1 is about to be made with any
\* arrays, the other call slots are not used ("off").
InitCommon ==
    /\ tt = [c \in Calls |-> ZeroMode]
    /\ pid = [c \in Calls |-> 0]
    /\ master_fd = [c \in Calls |-> -1]
    /\ result = [c \in Calls |-> NULL]
    /\ handle = [c \in Calls |-> NULL]
    /\ openFds = {0, 1, 2}
    /\ nextPid = 2
    /\ cpc = [c \in Calls |-> "none"]
    /\ slaveMode = [c \in Calls |-> ZeroMode]
    /\ envp = [c \in Calls |-> NULL]
    /\ argv = [c \in Calls |-> NULL]
    /\ ci = [c \in Calls |-> 0]
    /\ cterm = [c \in Calls |-> NotTerminated]
    /\ cfail = [c \in Calls |-> "none"]
    /\ execArgs = [c \in Calls |-> NULL]
    /\ childOps = [c \in Calls |-> {}]
    /\ allocFailed = [c \in Calls |-> FALSE]
    /\ wpc = "idle"
    /\ warg = 0
    /\ wtarget = 0
    /\ wret = 0
    /\ wwritten = FALSE
    /\ wstatus = 0
    /\ wresult = 0
    /\ wcalls = 0
    /\ hist = [c \in Calls |-> NoHistory]

Init ==
    /\ InitCommon
    /\ \E cmd \in CmdArrays, en \in EnvArrays :
          /\ cmdarray = [c \in Calls |-> IF c = 1 THEN cmd ELSE <<>>]
          /\ envarray = [c \in Calls |-> IF c = 1 THEN en ELSE <<>>]
    /\ ppc = [c \in Calls |-> IF c = 1 THEN "start" ELSE "off"]

\* State before concurrent calls: two threads are about to call
\* createSubprocess at once, each with the command "a"; the first passes the
\* environment entry "a", the second an empty environment.  Further call
\* slots are not used.
InitConc ==
    /\ InitCommon
    /\ cmdarray = [c \in Calls |-> IF c \in {1, 2} THEN << <<97>> >> ELSE <<>>]
    /\ envarray = [c \in Calls |-> IF c = 1 THEN << <<97>> >> ELSE <<>>]
    /\ ppc = [c \in Calls |-> IF c \in {1, 2} THEN "start" ELSE "off"]

(* ---------------------------- parent ----------------------------------- *)
\* lowest descriptor number not open in the parent
LowestFree(fds) == CHOOSE n \in 0..Cardinality(fds) : n \notin fds /\ \A m \in 0..(n - 1) : m \in fds

\* lines 28-43: the termios profile is built in the local tt
BuildMode(c) ==
    /\ ppc[c] = "start"
    /\ tt' = [tt EXCEPT ![c] = Profile]
    /\ ppc' = [ppc EXCEPT ![c] = "forkpty"]
    /\ UNCHANGED <<pid, master_fd, result, handle, openFds, nextPid>>
    /\ UNCHANGED <<inputVars, childVars, waitVars>>
    /\ UNCHANGED hist

\* (mutation of ParentFdsAfterFork) forkpty leaves the slave open in the parent
ParentFdsWithSlave(fds) ==
    fds \cup {LowestFree(fds), LowestFree(fds \cup {LowestFree(fds)})}

\* line 46: the descriptors open in the parent when forkpty has returned a
\* pid: the master is new, the slave has been closed again
ParentFdsAfterFork(fds) == fds \cup {LowestFree(fds)}

\* (mutation of TermpOfFork) forkpty is called without a mode (termp NULL):
\* the slave keeps the mode it was opened with
TermpNotPassed(c) == ZeroMode

\* line 46: the third argument of forkpty, &tt, the mode forkpty sets on the
\* slave before it forks
TermpOfFork(c) == tt[c]

\* line 46, forkpty succeeds: a pty pair is opened, the slave gets the mode,
\* the child is forked onto the slave; in the parent the slave is closed,
\* master_fd is stored and the child's pid is returned.
ForkptyOk(c) ==
    /\ ppc[c] = "forkpty"
    /\ pid' = [pid EXCEPT ![c] = nextPid]
    /\ nextPid' = nextPid + 1
    /\ master_fd' = [master_fd EXCEPT ![c] = LowestFree(openFds)]
    /\ openFds' = ParentFdsAfterFork(openFds)
    /\ slaveMode' = [slaveMode EXCEPT ![c] = TermpOfFork(c)]
    /\ cpc' = [cpc EXCEPT ![c] = "chdir"]
    /\ ppc' = [ppc EXCEPT ![c] = "branch"]
    /\ UNCHANGED <<tt, result, handle>>
    /\ UNCHANGED <<envp, argv, ci, cterm, cfail, execArgs, childOps, allocFailed>>
    /\ UNCHANGED <<inputVars, waitVars>>
    /\ hist' = [hist EXCEPT ![c].forkpty = @ + 1, ![c].child = nextPid,
                            ![c].master = LowestFree(openFds)]

\* (mutation of ForkptyFail) the fork fails after the pty was opened and the
\* master is left open
ForkptyFailLeaking(c) ==
    /\ ppc[c] = "forkpty"
    /\ pid' = [pid EXCEPT ![c] = -1]
    /\ openFds' = openFds \cup {LowestFree(openFds)}
    /\ ppc' = [ppc EXCEPT ![c] = "branch"]
    /\ hist' = [hist EXCEPT ![c].forkpty = @ + 1]
    /\ UNCHANGED <<tt, master_fd, result, handle, nextPid>>
    /\ UNCHANGED <<inputVars, childVars, waitVars>>

\* line 46, forkpty fails (no pty or no process): it returns -1, leaves no
\* descriptor open and no child behind; master_fd is not written.
ForkptyFail(c) ==
    /\ ppc[c] = "forkpty"
    /\ pid' = [pid EXCEPT ![c] = -1]
    /\ ppc' = [ppc EXCEPT ![c] = "branch"]
    /\ UNCHANGED <<tt, master_fd, result, handle, openFds, nextPid>>
    /\ UNCHANGED <<inputVars, childVars, waitVars>>
    /\ hist' = [hist EXCEPT ![c].forkpty = @ + 1]

\* lines 48-51: pid < 0, log and return NULL
ParentForkFailed(c) ==
    /\ ppc[c] = "branch"
    /\ pid[c] < 0
    /\ handle' = [handle EXCEPT ![c] = NULL]
    /\ ppc' = [ppc EXCEPT ![c] = "returned"]
    /\ UNCHANGED <<tt, pid, master_fd, result, openFds, nextPid>>
    /\ UNCHANGED <<inputVars, childVars, waitVars>>
    /\ hist' = [hist EXCEPT ![c].logs = @ + 1]

\* NewIntArray(env, 2): a new int[2] holding zeros, or NULL when the
\* runtime is out of memory
NewIntArray(ok) == IF ok THEN <<0, 0>> ELSE NULL

\* line 87: result = NewIntArray(env, 2)
ParentNewIntArray(c) ==
    /\ ppc[c] = "branch"
    /\ pid[c] > 0
    /\ \E ok \in BOOLEAN : result' = [result EXCEPT ![c] = NewIntArray(ok)]
    /\ ppc' = [ppc EXCEPT ![c] = "check"]
    /\ UNCHANGED <<tt, pid, master_fd, handle, openFds, nextPid>>
    /\ UNCHANGED <<inputVars, childVars, waitVars>>
    /\ hist' = [hist EXCEPT ![c].newarray = @ + 1]

\* lines 88-90: result == NULL, return NULL (nothing is closed or killed)
ParentArrayFailed(c) ==
    /\ ppc[c] = "check"
    /\ result[c] = NULL
    /\ handle' = [handle EXCEPT ![c] = NULL]
    /\ ppc' = [ppc EXCEPT ![c] = "returned"]
    /\ UNCHANGED <<tt, pid, master_fd, result, openFds, nextPid>>
    /\ UNCHANGED <<inputVars, childVars, waitVars>>
    /\ UNCHANGED hist

\* (mutation of Fill) master_fd is not a local of the call but storage
\* shared by all threads: fill reads what the latest forkpty stored in it
FillSharedFd(c) == <<pid[c], master_fd[CHOOSE d \in Calls : pid[d] = nextPid - 1]>>

\* (mutation of Fill) the parent looks at the child and reports its failure
FillUnlessChildFailed(c) ==
    IF cfail[c] # "none" THEN <<-1, master_fd[c]>> ELSE <<pid[c], master_fd[c]>>

\* lines 91-93: fill[0] = pid; fill[1] = master_fd
Fill(c) == <<pid[c], master_fd[c]>>

\* (mutation of ParentReturn) the parent returns the handle only when the
\* child has terminated
ParentReturnAfterChild(c) ==
    /\ ppc[c] = "check"
    /\ result[c] # NULL
    /\ cpc[c] \in {"zombie", "reaped"}
    /\ result' = [result EXCEPT ![c] = Fill(c)]
    /\ handle' = [handle EXCEPT ![c] = Fill(c)]
    /\ ppc' = [ppc EXCEPT ![c] = "returned"]
    /\ UNCHANGED <<tt, pid, master_fd, openFds, nextPid>>
    /\ UNCHANGED <<inputVars, childVars, waitVars>>
    /\ UNCHANGED hist

\* lines 91-95: SetIntArrayRegion(result, 0, 2, fill); return result
ParentReturn(c) ==
    /\ ppc[c] = "check"
    /\ result[c] # NULL
    /\ result' = [result EXCEPT ![c] = Fill(c)]
    /\ handle' = [handle EXCEPT ![c] = Fill(c)]
    /\ ppc' = [ppc EXCEPT ![c] = "returned"]
    /\ UNCHANGED <<tt, pid, master_fd, openFds, nextPid>>
    /\ UNCHANGED <<inputVars, childVars, waitVars>>
    /\ UNCHANGED hist

(* ---------------------------- child ------------------------------------ *)
\* (mutation of ChildEnds) the child does not end: it leaves the child
\* branch and runs on into the code after it, as the parent does
ChildFallsThrough(c, t, why, ops) ==
    /\ cpc' = [cpc EXCEPT ![c] = "caller"]
    /\ cterm' = cterm
    /\ cfail' = [cfail EXCEPT ![c] = why]
    /\ childOps' = [childOps EXCEPT ![c] = @ \cup ops \cup {"NewIntArray", "return"}]

\* the child process ends with termination t
ChildEnds(c, t, why, ops) ==
    /\ cpc' = [cpc EXCEPT ![c] = "zombie"]
    /\ cterm' = [cterm EXCEPT ![c] = t]
    /\ cfail' = [cfail EXCEPT ![c] = why]
    /\ childOps' = [childOps EXCEPT ![c] = @ \cup ops]

\* lines 54-59: GetStringUTFChars, chdir; on failure LOGE and exit(1)
ChildChdir(c) ==
    /\ cpc[c] = "chdir"
    /\ \E ok \in BOOLEAN :
          IF ok
          THEN /\ cpc' = [cpc EXCEPT ![c] = "env_malloc"]
               /\ childOps' = [childOps EXCEPT ![c] = @ \cup {"jni", "chdir"}]
               /\ hist' = [hist EXCEPT ![c].chdir = @ + 1, ![c].steps = Append(@, "chdir")]
               /\ UNCHANGED <<cterm, cfail>>
          ELSE /\ ChildEnds(c, Exited(1), "chdir", {"jni", "chdir", "log", "exit"})
               /\ hist' = [hist EXCEPT ![c].chdir = @ + 1, ![c].logs = @ + 1,
                                       ![c].steps = Append(@, "chdir")]
    /\ UNCHANGED <<slaveMode, envp, argv, ci, execArgs, allocFailed>>
    /\ UNCHANGED <<inputVars, parentVars, waitVars>>

\* malloc(sizeof(char *) * (len + 1)): len + 1 unwritten slots, or NULL
MallocVector(len, ok) == IF ok THEN [i \in 1..(len + 1) |-> Junk] ELSE NULL

\* vec[i] = strdup(GetStringUTFChars(js)), slot i counted from 0; strdup
\* returns NULL when it cannot allocate
StoreDup(vec, i, js, ok) ==
    [vec EXCEPT ![i + 1] = IF ok THEN strdup(GetStringUTFChars(js)) ELSE NULL]

\* (mutation of StoreSentinel) the last slot is left as malloc returned it
SentinelNotStored(vec, len) == vec

\* vec[len] = NULL
StoreSentinel(vec, len) == [vec EXCEPT ![len + 1] = NULL]

\* lines 61-62: env_len = GetArrayLength; envp = malloc(...)
ChildEnvMalloc(c) ==
    /\ cpc[c] = "env_malloc"
    /\ \E ok \in BOOLEAN :
          /\ envp' = [envp EXCEPT ![c] = MallocVector(Len(envarray[c]), ok)]
          /\ allocFailed' = [allocFailed EXCEPT ![c] = @ \/ ~ok]
    /\ ci' = [ci EXCEPT ![c] = 0]
    /\ cpc' = [cpc EXCEPT ![c] = "env_loop"]
    /\ childOps' = [childOps EXCEPT ![c] = @ \cup {"jni", "malloc"}]
    /\ UNCHANGED <<slaveMode, argv, cterm, cfail, execArgs>>
    /\ UNCHANGED <<inputVars, parentVars, waitVars>>
    /\ hist' = [hist EXCEPT ![c].steps = Append(@, "envp")]

\* lines 63-68, one iteration: the entry is fetched, converted, duplicated
\* and stored.  Nothing is tested: a NULL from strdup is stored as it is; a
\* NULL from GetStringUTFChars is passed to strdup and a NULL envp is
\* written through, both invalid accesses that kill the child.
ChildEnvDup(c) ==
    /\ cpc[c] = "env_loop"
    /\ ci[c] < Len(envarray[c])
    /\ \E how \in {"ok", "strdup_null", "utf_null"} :
          IF how = "utf_null" \/ envp[c] = NULL
          THEN /\ \E s \in Crashes :
                     ChildEnds(c, s, "crash", {"jni"} \cup (IF how = "utf_null" THEN {} ELSE {"malloc"}))
               /\ allocFailed' = [allocFailed EXCEPT ![c] = TRUE]
               /\ UNCHANGED <<envp, ci>>
          ELSE /\ envp' = [envp EXCEPT ![c] =
                              StoreDup(@, ci[c], envarray[c][ci[c] + 1], how = "ok")]
               /\ allocFailed' = [allocFailed EXCEPT ![c] = @ \/ how # "ok"]
               /\ ci' = [ci EXCEPT ![c] = @ + 1]
               /\ childOps' = [childOps EXCEPT ![c] = @ \cup {"jni", "malloc"}]
               /\ UNCHANGED <<cpc, cterm, cfail>>
    /\ UNCHANGED <<slaveMode, argv, execArgs>>
    /\ UNCHANGED <<inputVars, parentVars, waitVars>>
    /\ UNCHANGED hist

\* line 69: envp[env_len] = NULL (through a NULL envp: invalid access)
ChildEnvEnd(c) ==
    /\ cpc[c] = "env_loop"
    /\ ci[c] = Len(envarray[c])
    /\ IF envp[c] = NULL
       THEN /\ \E s \in Crashes : ChildEnds(c, s, "crash", {})
            /\ UNCHANGED envp
       ELSE /\ envp' = [envp EXCEPT ![c] = StoreSentinel(@, Len(envarray[c]))]
            /\ cpc' = [cpc EXCEPT ![c] = "arg_malloc"]
            /\ UNCHANGED <<cterm, cfail, childOps>>
    /\ UNCHANGED <<slaveMode, argv, ci, execArgs, allocFailed>>
    /\ UNCHANGED <<inputVars, parentVars, waitVars>>
    /\ UNCHANGED hist

\* lines 71-72: cmd_len = GetArrayLength; argv = malloc(...)
ChildArgMalloc(c) ==
    /\ cpc[c] = "arg_malloc"
    /\ \E ok \in BOOLEAN :
          /\ argv' = [argv EXCEPT ![c] = MallocVector(Len(cmdarray[c]), ok)]
          /\ allocFailed' = [allocFailed EXCEPT ![c] = @ \/ ~ok]
    /\ ci' = [ci EXCEPT ![c] = 0]
    /\ cpc' = [cpc EXCEPT ![c] = "arg_loop"]
    /\ childOps' = [childOps EXCEPT ![c] = @ \cup {"jni", "malloc"}]
    /\ UNCHANGED <<slaveMode, envp, cterm, cfail, execArgs>>
    /\ UNCHANGED <<inputVars, parentVars, waitVars>>
    /\ hist' = [hist EXCEPT ![c].steps = Append(@, "argv")]

\* lines 73-78, one iteration (as for envp)
ChildArgDup(c) ==
    /\ cpc[c] = "arg_loop"
    /\ ci[c] < Len(cmdarray[c])
    /\ \E how \in {"ok", "strdup_null", "utf_null"} :
          IF how = "utf_null" \/ argv[c] = NULL
          THEN /\ \E s \in Crashes :
                     ChildEnds(c, s, "crash", {"jni"} \cup (IF how = "utf_null" THEN {} ELSE {"malloc"}))
               /\ allocFailed' = [allocFailed EXCEPT ![c] = TRUE]
               /\ UNCHANGED <<argv, ci>>
          ELSE /\ argv' = [argv EXCEPT ![c] =
                              StoreDup(@, ci[c], cmdarray[c][ci[c] + 1], how = "ok")]
               /\ allocFailed' = [allocFailed EXCEPT ![c] = @ \/ how # "ok"]
               /\ ci' = [ci EXCEPT ![c] = @ + 1]
               /\ childOps' = [childOps EXCEPT ![c] = @ \cup {"jni", "malloc"}]
               /\ UNCHANGED <<cpc, cterm, cfail>>
    /\ UNCHANGED <<slaveMode, envp, execArgs>>
    /\ UNCHANGED <<inputVars, parentVars, waitVars>>
    /\ UNCHANGED hist

\* line 79: argv[cmd_len] = NULL
ChildArgEnd(c) ==
    /\ cpc[c] = "arg_loop"
    /\ ci[c] = Len(cmdarray[c])
    /\ IF argv[c] = NULL
       THEN /\ \E s \in Crashes : ChildEnds(c, s, "crash", {})
            /\ UNCHANGED argv
       ELSE /\ argv' = [argv EXCEPT ![c] = StoreSentinel(@, Len(cmdarray[c]))]
            /\ cpc' = [cpc EXCEPT ![c] = "exec"]
            /\ UNCHANGED <<cterm, cfail, childOps>>
    /\ UNCHANGED <<slaveMode, envp, ci, execArgs, allocFailed>>
    /\ UNCHANGED <<inputVars, parentVars, waitVars>>
    /\ UNCHANGED hist

\* the arguments of line 81: execvpe(argv[0], argv, envp)
ExecCall(c) == [file |-> argv[c][1], argv |-> argv[c], envp |-> envp[c]]

\* line 81, the program starts: the child's image is replaced
ChildExecOk(c) ==
    /\ cpc[c] = "exec"
    /\ argv[c][1] # NULL
    /\ execArgs' = [execArgs EXCEPT ![c] = ExecCall(c)]
    /\ cpc' = [cpc EXCEPT ![c] = "program"]
    /\ childOps' = [childOps EXCEPT ![c] = @ \cup {"exec"}]
    /\ UNCHANGED <<slaveMode, envp, argv, ci, cterm, cfail, allocFailed>>
    /\ UNCHANGED <<inputVars, parentVars, waitVars>>
    /\ hist' = [hist EXCEPT ![c].exec = @ + 1, ![c].steps = Append(@, "exec")]

\* (mutation of ChildExecFail) when execvpe returns the child calls it again
ChildExecRetries(c) ==
    /\ cpc[c] = "exec"
    /\ execArgs' = [execArgs EXCEPT ![c] = ExecCall(c)]
    /\ hist' = [hist EXCEPT ![c].exec = @ + 1, ![c].logs = @ + 1,
                            ![c].steps = Append(@, "exec")]
    /\ childOps' = [childOps EXCEPT ![c] = @ \cup {"exec", "log"}]
    /\ UNCHANGED <<cpc, cterm, cfail>>
    /\ UNCHANGED <<slaveMode, envp, argv, ci, allocFailed>>
    /\ UNCHANGED <<inputVars, parentVars, waitVars>>

\* lines 81-85, execvpe returns: LOGE and exit(1).  With a null argv[0]
\* the call is outside execvpe's contract: it returns an error or the
\* child is killed by the invalid access.
ChildExecFail(c) ==
    /\ cpc[c] = "exec"
    /\ execArgs' = [execArgs EXCEPT ![c] = ExecCall(c)]
    /\ \/ /\ ChildEnds(c, Exited(1), "exec", {"exec", "log", "exit"})
          /\ hist' = [hist EXCEPT ![c].exec = @ + 1, ![c].logs = @ + 1,
                                  ![c].steps = Append(@, "exec")]
       \/ /\ argv[c][1] = NULL
          /\ \E s \in Crashes : ChildEnds(c, s, "crash", {"exec"})
          /\ hist' = [hist EXCEPT ![c].exec = @ + 1, ![c].steps = Append(@, "exec")]
    /\ UNCHANGED <<slaveMode, envp, argv, ci, allocFailed>>
    /\ UNCHANGED <<inputVars, parentVars, waitVars>>

\* the started program terminates, by exit or by a signal
ProgramEnds(c) ==
    /\ cpc[c] = "program"
    /\ \E t \in Terminations :
          /\ cpc' = [cpc EXCEPT ![c] = "zombie"]
          /\ cterm' = [cterm EXCEPT ![c] = t]
    /\ UNCHANGED <<slaveMode, envp, argv, ci, cfail, execArgs, childOps, allocFailed>>
    /\ UNCHANGED <<inputVars, parentVars, waitVars>>
    /\ UNCHANGED hist

(* ---------------------------- waitFor ---------------------------------- *)
\* pids the caller holds: those of the handles spawn returned
KnownPids == {handle[c][1] : c \in {d \in Calls : ppc[d] = "returned" /\ handle[d] # NULL}}

\* the calls whose child has process id p and has not been reaped
Unreaped(p) == {c \in Calls : cpc[c] \notin {"none", "reaped"} /\ pid[c] = p}

\* waitFor(pid) is entered; status is declared and not initialised (line 101).
\* The caller waits once a spawn call has returned to it; the argument is a
\* pid of a returned handle, or 1, which is no child.
WaitFor ==
    /\ wpc = "idle"
    /\ \E c \in Calls : ppc[c] = "returned"
    /\ \E p \in KnownPids \cup {1} :
          /\ warg' = p
          /\ wtarget' = IF Unreaped(p) = {} THEN 0 ELSE CHOOSE c \in Unreaped(p) : TRUE
    /\ wpc' = "waitpid"
    /\ UNCHANGED <<wret, wwritten, wstatus, wresult, wcalls>>
    /\ UNCHANGED <<inputVars, parentVars, childVars>>
    /\ UNCHANGED hist

\* line 102, the child has terminated: waitpid reaps it, stores its status
\* word and returns its pid
WaitpidReaps ==
    /\ wpc = "waitpid"
    /\ \E c \in Unreaped(warg) :
          /\ cpc[c] = "zombie"
          /\ cpc' = [cpc EXCEPT ![c] = "reaped"]
          /\ wstatus' = StatusWord(cterm[c])
    /\ wwritten' = TRUE
    /\ wret' = warg
    /\ wcalls' = wcalls + 1
    /\ wpc' = "decode"
    /\ UNCHANGED <<warg, wtarget, wresult>>
    /\ UNCHANGED <<slaveMode, envp, argv, ci, cterm, cfail, execArgs, childOps, allocFailed>>
    /\ UNCHANGED <<inputVars, parentVars>>
    /\ UNCHANGED hist

\* line 102, the child is still running and a signal handler interrupts
\* the wait: waitpid returns -1 (EINTR) and stores nothing
WaitpidInterrupted ==
    /\ wpc = "waitpid"
    /\ \E c \in Unreaped(warg) : cpc[c] # "zombie"
    /\ wret' = -1
    /\ wcalls' = wcalls + 1
    /\ wpc' = "decode"
    /\ UNCHANGED <<warg, wtarget, wwritten, wstatus, wresult>>
    /\ UNCHANGED <<inputVars, parentVars, childVars>>
    /\ UNCHANGED hist

\* line 102, the pid names no unreaped child: waitpid returns -1 (ECHILD)
\* and stores nothing
WaitpidNoChild ==
    /\ wpc = "waitpid"
    /\ Unreaped(warg) = {}
    /\ wret' = -1
    /\ wcalls' = wcalls + 1
    /\ wpc' = "decode"
    /\ UNCHANGED <<warg, wtarget, wwritten, wstatus, wresult>>
    /\ UNCHANGED <<inputVars, parentVars, childVars>>
    /\ UNCHANGED hist

\* lines 103-106: the decoding of a status word
Decode(s) == IF WIFEXITED(s) THEN WEXITSTATUS(s) ELSE -1

\* lines 103-106: status is read, whether or not waitpid wrote it; a
\* status never written holds any value
WaitDecode ==
    /\ wpc = "decode"
    /\ \E s \in (IF wwritten THEN {wstatus} ELSE StatusValues) :
          wresult' = Decode(s)
    /\ wpc' = "done"
    /\ UNCHANGED <<warg, wtarget, wret, wwritten, wstatus, wcalls>>
    /\ UNCHANGED <<inputVars, parentVars, childVars>>
    /\ UNCHANGED hist

\* the caller goes on to its next waitFor call: a new frame, a new status
WaitAgain ==
    /\ wpc = "done"
    /\ wpc' = "idle"
    /\ warg' = 0
    /\ wtarget' = 0
    /\ wret' = 0
    /\ wwritten' = FALSE
    /\ wstatus' = 0
    /\ wresult' = 0
    /\ wcalls' = 0
    /\ UNCHANGED <<inputVars, parentVars, childVars>>
    /\ UNCHANGED hist

(* ---------------------------- specification ---------------------------- *)
Next ==
    \/ \E c \in Calls : BuildMode(c)
    \/ \E c \in Calls : ForkptyOk(c)
    \/ \E c \in Calls : ForkptyFail(c)
    \/ \E c \in Calls : ParentForkFailed(c)
    \/ \E c \in Calls : ParentNewIntArray(c)
    \/ \E c \in Calls : ParentArrayFailed(c)
    \/ \E c \in Calls : ParentReturn(c)
    \/ \E c \in Calls : ChildChdir(c)
    \/ \E c \in Calls : ChildEnvMalloc(c)
    \/ \E c \in Calls : ChildEnvDup(c)
    \/ \E c \in Calls : ChildEnvEnd(c)
    \/ \E c \in Calls : ChildArgMalloc(c)
    \/ \E c \in Calls : ChildArgDup(c)
    \/ \E c \in Calls : ChildArgEnd(c)
    \/ \E c \in Calls : ChildExecOk(c)
    \/ \E c \in Calls : ChildExecFail(c)
    \/ \E c \in Calls : ProgramEnds(c)
    \/ WaitFor
    \/ WaitpidReaps
    \/ WaitpidInterrupted
    \/ WaitpidNoChild
    \/ WaitDecode
    \/ WaitAgain

Spec == Init /\ [][Next]_vars

\* two threads inside createSubprocess at once
SpecConc == InitConc /\ [][Next]_vars

(* ======================================================================= *)
(* Properties                                                              *)
(* ======================================================================= *)
\* the call has returned to its caller
Returned(c) == ppc[c] = "returned"

\* the value returned is a handle: a pid > 0 and a descriptor >= 0
ValidHandle(h) == h # NULL /\ h[1] > 0 /\ h[2] >= 0

\* a process forked by the call exists (running, or terminated and not reaped)
ChildExists(c) == cpc[c] \notin {"none", "reaped"}

\* a descriptor opened by the call is open in the parent
DescriptorOpen(c) == pid[c] > 0 /\ master_fd[c] \in openFds

\* the child of the call has terminated
Terminated(c) == cpc[c] \in {"zombie", "reaped"}

\* the current waitFor call has returned
WaitReturned == wpc = "done"

\* the strings duplicated by the child of the call that are still allocated
\* in it (the code never calls free; the memory goes with the process image)
LiveDuplicates(c) ==
    IF cpc[c] \in {"none", "program", "zombie", "reaped"} THEN {}
    ELSE {<<"envp", i>> : i \in {j \in DOMAIN envp[c] : envp[c][j] \notin {NULL, Junk}}}
         \cup {<<"argv", i>> : i \in {j \in DOMAIN argv[c] : argv[c][j] \notin {NULL, Junk}}}

\* vec is the marshalled form of the array in: Len(in) + 1 slots, the last
\* the null sentinel, slot i a non-null C string with the text of in[i]
Marshalled(in, vec) ==
    /\ Len(vec) = Len(in) + 1
    /\ vec[Len(in) + 1] = NULL
    /\ \A i \in 1..Len(in) : vec[i] # NULL /\ vec[i] # Junk /\ Text(vec[i]) = in[i]

(* ----------------------------------------------------------------------- *)
\* C1: every spawn call that has returned either returned a handle with
\* pid > 0 and masterFd >= 0, or returned failure, and then no child
\* process created by the call exists and no descriptor opened by the call
\* is open in the parent (also when the result array cannot be allocated
\* after the fork).
C1_SpawnAllOrNothing ==
    \A c \in Calls :
        Returned(c) =>
            \/ ValidHandle(handle[c])
            \/ handle[c] = NULL /\ ~ChildExists(c) /\ ~DescriptorOpen(c)

(* ----------------------------------------------------------------------- *)
\* C2: when waitFor has returned for a pid that named a spawned, unreaped
\* child, and that child terminated by exit with code k, the value returned
\* is k; when it terminated in any other way the value returned is -1.
C2_ExactDecoding ==
    (WaitReturned /\ wtarget # 0 /\ Terminated(wtarget)) =>
        /\ cterm[wtarget].kind = "exited" => wresult = cterm[wtarget].n
        /\ cterm[wtarget].kind # "exited" => wresult = -1

(* ----------------------------------------------------------------------- *)
\* the call came back from the result allocation with an array (a NULL
\* array is the ResourceExhausted failure of the call)
ArrayAllocated(c) == Returned(c) /\ result[c] # NULL

\* execvpe was called with a program name and returned
ExecFailed(c) == cfail[c] = "exec" /\ execArgs[c] # NULL /\ execArgs[c].file # NULL

\* C3: when execvpe was called with a program name and failed, the spawn
\* call (its result array allocated) returns a valid handle, the child
\* ends by an exit with a non-zero code, and a waitFor on its pid returns
\* a value in 1..255, never 0 and never -1.
C3_ExecFailureStatus ==
    \A c \in Calls :
        ExecFailed(c) =>
            /\ ArrayAllocated(c) => ValidHandle(handle[c])
            /\ cterm[c].kind = "exited" /\ cterm[c].n # 0
            /\ (WaitReturned /\ wtarget = c) => wresult \in 1..255

(* ----------------------------------------------------------------------- *)
\* C4 (its safety part): when chdir failed in the child, the spawn call
\* (its result array allocated) returns a valid handle, the child has
\* ended with a non-zero exit code without allocating a vector and
\* without calling execvpe, and a waitFor on its pid that has returned has
\* returned a non-zero value.
C4_ChdirFailureStatus ==
    \A c \in Calls :
        cfail[c] = "chdir" =>
            /\ ArrayAllocated(c) => ValidHandle(handle[c])
            /\ cterm[c].kind = "exited" /\ cterm[c].n # 0
            /\ envp[c] = NULL /\ argv[c] = NULL /\ execArgs[c] = NULL
            /\ (WaitReturned /\ wtarget = c) => wresult # 0

(* ----------------------------------------------------------------------- *)
\* C5: when a malloc or strdup of the marshalling has failed, the child
\* does not go on to execvpe: execvpe is never called after the failure,
\* and the child does not stand at the execvpe call still holding the
\* duplicates it made before the failure.
C5_MarshalFailureSurfaced ==
    \A c \in Calls :
        allocFailed[c] =>
            /\ execArgs[c] = NULL
            /\ cpc[c] = "exec" => LiveDuplicates(c) = {}

(* ----------------------------------------------------------------------- *)
\* C6: whenever execvpe is called, argv is the marshalled form of cmdarray
\* and envp the marshalled form of envarray: N + 1 slots, the last one
\* null, none before it null, slot i the text of input string i.
C6_MarshalRoundTrip ==
    \A c \in Calls :
        execArgs[c] # NULL =>
            /\ Marshalled(cmdarray[c], execArgs[c].argv)
            /\ Marshalled(envarray[c], execArgs[c].envp)

(* ----------------------------------------------------------------------- *)
\* C7: the value a spawn call returns is fixed by the outcome of forkpty
\* and of the result allocation alone: NULL when forkpty failed or the
\* array could not be allocated, otherwise the pair (pid, master_fd) that
\* forkpty produced, whatever the child has done or failed to do by then.
C7_NoSynchronousChildReport ==
    \A c \in Calls :
        Returned(c) =>
            handle[c] = IF pid[c] > 0 /\ result[c] # NULL
                        THEN <<pid[c], master_fd[c]>>
                        ELSE NULL

\* a call has returned its handle although its child failed in chdir or in
\* execvpe and has already ended with a non-zero status
C7_Witness ==
    \E c \in Calls :
        /\ Returned(c) /\ ValidHandle(handle[c])
        /\ cfail[c] \in {"chdir", "exec"} /\ Terminated(c)

(* ----------------------------------------------------------------------- *)
\* C8: between the fork and execvpe (or its exit) the child makes no
\* memory allocation, no managed-runtime call and no logging call.
C8_AsyncSignalSafeChild ==
    \A c \in Calls : childOps[c] \cap {"malloc", "jni", "log"} = {}

(* ----------------------------------------------------------------------- *)
\* C9: when waitFor has returned for a pid that named a spawned, unreaped
\* child, that child has terminated.
C9_ReturnsAfterTermination ==
    (WaitReturned /\ wtarget # 0) => Terminated(wtarget)

(* ----------------------------------------------------------------------- *)
\* C10: when waitFor has returned for a pid that named no unreaped child,
\* the value returned was not computed from a status that waitpid never
\* wrote and is not a value that reads as an exit code.
C10_WaitErrorPropagated ==
    (WaitReturned /\ wtarget = 0) => (wwritten /\ wresult \notin 0..255)

(* ----------------------------------------------------------------------- *)
(* What holds on the paths where waitpid reaps the child and where every  *)
(* allocation of the marshalling succeeds.                                *)
(* ----------------------------------------------------------------------- *)
\* waitpid returned the pid: it reaped the child and stored its status
Reaped == WaitReturned /\ wtarget # 0 /\ wret = warg

\* when waitpid reaped the child, waitFor returns the exit code of a child
\* that exited and -1 for any other termination
DecodeExactWhenReaped ==
    Reaped =>
        /\ cterm[wtarget].kind = "exited" => wresult = cterm[wtarget].n
        /\ cterm[wtarget].kind # "exited" => wresult = -1

\* when waitpid reaped a child that failed in chdir or in execvpe, waitFor
\* returns 1
ChildFailureReadsOneWhenReaped ==
    (Reaped /\ cfail[wtarget] \in {"chdir", "exec"}) => wresult = 1

\* when no allocation of the marshalling failed, execvpe is called with the
\* marshalled forms of cmdarray and envarray
RoundTripWhenAllocated ==
    \A c \in Calls :
        (execArgs[c] # NULL /\ ~allocFailed[c]) =>
            /\ Marshalled(cmdarray[c], execArgs[c].argv)
            /\ Marshalled(envarray[c], execArgs[c].envp)

(* ----------------------------------------------------------------------- *)
\* the calls whose forkpty returned a child
Forked == {c \in Calls : pid[c] > 0}

\* the parent holds the three standard descriptors and the masters of the
\* calls whose forkpty succeeded, nothing else; the kernel has created one
\* process for each of these calls, and no other
ResourcesAccounted ==
    /\ openFds = {0, 1, 2} \cup {master_fd[c] : c \in Forked}
    /\ nextPid = 2 + Cardinality(Forked)

\* C11: when forkpty failed in a call, the call returns NULL and nothing
\* else: no child exists for it, it left no descriptor open, no child-side
\* step (chdir, marshalling, execvpe) was made for it and NewIntArray was
\* never invoked for it.
C11_ForkFailureLeavesNothing ==
    \A c \in Calls :
        pid[c] < 0 =>
            /\ ppc[c] \in {"branch", "returned"}
            /\ ppc[c] = "branch" => ENABLED ParentForkFailed(c)
            /\ Returned(c) => handle[c] = NULL
            /\ ~ChildExists(c) /\ cpc[c] = "none"
            /\ ~DescriptorOpen(c) /\ master_fd[c] \notin openFds /\ ResourcesAccounted
            /\ hist[c].steps = <<>> /\ hist[c].chdir = 0 /\ hist[c].exec = 0
            /\ childOps[c] = {} /\ envp[c] = NULL /\ argv[c] = NULL /\ execArgs[c] = NULL
            /\ hist[c].newarray = 0 /\ result[c] = NULL

\* a call has returned after its forkpty failed
C11_Witness == \E c \in Calls : pid[c] < 0 /\ Returned(c) /\ hist[c].logs = 1

(* ----------------------------------------------------------------------- *)
\* C12: a call that returned a handle invoked forkpty once, its child is
\* the one process with the pid of the handle, and of the descriptors open
\* in the parent exactly one is new with the call: the master, which is the
\* descriptor of the handle.  No other descriptor (the slave) is open.
C12_OneChildOneMaster ==
    \A c \in Calls :
        (Returned(c) /\ ValidHandle(handle[c])) =>
            /\ hist[c].forkpty = 1
            /\ handle[c][1] = pid[c] /\ cpc[c] # "none"
            /\ \A d \in Calls \ {c} : pid[d] # pid[c]
            /\ handle[c][2] = master_fd[c]
            /\ openFds \ ({0, 1, 2} \cup {master_fd[d] : d \in Forked \ {c}}) = {handle[c][2]}
            /\ ResourcesAccounted

\* a call has returned a handle
C12_Witness == \E c \in Calls : Returned(c) /\ ValidHandle(handle[c]) /\ handle[c][2] \in openFds

(* ----------------------------------------------------------------------- *)
\* lines 48-51 and 86-95: a step of the calling thread after forkpty
ParentStep(c) ==
    \/ ParentForkFailed(c)
    \/ ParentNewIntArray(c)
    \/ ParentArrayFailed(c)
    \/ ParentReturn(c)

\* C13: in every state in which forkpty has returned a child and the call
\* has not returned yet, the calling thread can take its next step, whatever
\* the child has done or not done: no step of the parent waits for the
\* child.  (The parent has at most two steps to its return.)
C13_SpawnNeverWaits ==
    \A c \in Calls :
        (pid[c] > 0 /\ ~Returned(c)) =>
            /\ ppc[c] \in {"branch", "check"}
            /\ ENABLED ParentStep(c)

\* a call has returned its handle while its child has not taken its first
\* step
C13_Witness ==
    \E c \in Calls :
        Returned(c) /\ handle[c] = <<pid[c], master_fd[c]>> /\ pid[c] > 0
            /\ cpc[c] = "chdir" /\ hist[c].steps = <<>>

C15_ExecHasProgramName ==
    \A c \in Calls :
        execArgs[c] # NULL =>
            /\ execArgs[c].argv[1] # NULL
            /\ execArgs[c].file # NULL
            /\ cmdarray[c] # <<>> /\ Text(execArgs[c].file) = cmdarray[c][1]

\* when cmdarray is not empty and no allocation of the marshalling failed,
\* execvpe is called with the text of cmdarray[0] as its file and argv[0]
ProgramNameWhenGiven ==
    \A c \in Calls :
        (execArgs[c] # NULL /\ cmdarray[c] # <<>> /\ ~allocFailed[c]) =>
            /\ execArgs[c].file # NULL /\ execArgs[c].file = execArgs[c].argv[1]
            /\ Text(execArgs[c].file) = cmdarray[c][1]

(* ----------------------------------------------------------------------- *)
\* C16: from the moment forkpty is about to be invoked the local tt holds
\* the whole profile of lines 28-43, and from the moment the child exists,
\* its first step (chdir) not yet taken included, the child's controlling
\* terminal carries that profile: canonical input with echo, signal keys,
\* CR/NL translation and the control characters of the profile.
C16_ModeBeforeChildRuns ==
    \A c \in Calls :
        /\ ppc[c] \in {"forkpty", "branch", "check", "returned"} => tt[c] = Profile
        /\ cpc[c] # "none" =>
              /\ slaveMode[c] = Profile
              /\ {"ICANON", "ECHO", "ISIG"} \subseteq slaveMode[c].c_lflag
              /\ "ICRNL" \in slaveMode[c].c_iflag /\ "ONLCR" \in slaveMode[c].c_oflag
              /\ slaveMode[c].c_cc.VMIN = 1 /\ slaveMode[c].c_cc.VERASE = 127

\* a child exists that has not taken its first step, while its parent is
\* still at the branch after forkpty
C16_Witness ==
    \E c \in Calls :
        cpc[c] = "chdir" /\ hist[c].steps = <<>> /\ ppc[c] = "branch" /\ slaveMode[c] = tt[c]

(* ----------------------------------------------------------------------- *)
\* lines 53-81: the steps of the child in the order of the code
ChildOrder == <<"chdir", "envp", "argv", "exec">>

\* s is an initial part of t
IsPrefix(s, t) == Len(s) <= Len(t) /\ \A i \in 1..Len(s) : s[i] = t[i]

\* the vector for the array in is built to its end: it has Len(in) + 1
\* slots, the loop has assigned every one of the first Len(in), and the
\* last holds the NULL sentinel
Built(in, vec) ==
    /\ vec # NULL
    /\ Len(vec) = Len(in) + 1
    /\ \A i \in 1..Len(in) : vec[i] # Junk
    /\ vec[Len(in) + 1] = NULL

\* C17: the steps a child has taken are always an initial part of chdir,
\* environment vector, argument vector, execvpe; the marshalling starts only
\* after chdir succeeded, the argument vector only after the environment
\* vector was built to its end, and execvpe is called only after chdir
\* succeeded and both vectors were built to their end, sentinel included.
C17_ChildStepOrder ==
    \A c \in Calls :
        /\ IsPrefix(hist[c].steps, ChildOrder)
        /\ Len(hist[c].steps) >= 2 => cfail[c] # "chdir" /\ hist[c].chdir = 1
        /\ Len(hist[c].steps) >= 3 => Built(envarray[c], envp[c])
        /\ cpc[c] = "exec" \/ execArgs[c] # NULL =>
              /\ cfail[c] # "chdir" /\ "chdir" \in childOps[c]
              /\ Built(envarray[c], envp[c]) /\ Built(cmdarray[c], argv[c])
        /\ execArgs[c] # NULL =>
              /\ hist[c].steps = ChildOrder
              /\ Built(envarray[c], execArgs[c].envp) /\ Built(cmdarray[c], execArgs[c].argv)

\* a child has gone through all four steps and runs the program
C17_Witness ==
    \E c \in Calls :
        cpc[c] = "program" /\ hist[c].steps = ChildOrder /\ Len(execArgs[c].argv) = MaxCmd + 1

(* ----------------------------------------------------------------------- *)
\* lines 53-81: the positions of a child inside the child branch
ChildBranch == {"chdir", "env_malloc", "env_loop", "arg_malloc", "arg_loop", "exec"}

\* C18: a child is always inside the child branch, or its image has been
\* replaced by the program (execvpe succeeded), or it has terminated; it is
\* never anywhere else in the caller's code, and the calls it has made
\* include neither NewIntArray nor a return from the function.  A child
\* whose chdir or execvpe failed has terminated.
C18_ChildNeverReturns ==
    \A c \in Calls :
        /\ cpc[c] \in {"none"} \cup ChildBranch \cup {"program", "zombie", "reaped"}
        /\ cpc[c] = "program" => execArgs[c] # NULL /\ cterm[c] = NotTerminated
        /\ cpc[c] \in {"zombie", "reaped"} => cterm[c] # NotTerminated
        /\ cfail[c] # "none" => cpc[c] \in {"zombie", "reaped"}
        /\ childOps[c] \subseteq {"jni", "chdir", "malloc", "exec", "log", "exit"}
        /\ hist[c].newarray = 1 => ppc[c] \in {"check", "returned"}

\* a child whose execvpe returned has ended by exit(1)
C18_Witness ==
    \E c \in Calls :
        cfail[c] = "exec" /\ execArgs[c].file # NULL /\ cterm[c] = Exited(1)
            /\ "exit" \in childOps[c] /\ cpc[c] = "zombie"

(* ----------------------------------------------------------------------- *)
\* C19: with several threads inside createSubprocess at once, a call that
\* returns a handle returns the process its own forkpty created and the
\* master its own forkpty opened, the pid first and the descriptor second;
\* two calls that have returned handles have returned different pids and
\* different descriptors.  (Process ids are handed out fresh: the kernel
\* does not recycle the id of a reaped child during the calls.)
C19_ConcurrentCallsKeepTheirPairs ==
    /\ \A c \in Calls :
          (Returned(c) /\ handle[c] # NULL) =>
              /\ handle[c] = <<hist[c].child, hist[c].master>>
              /\ hist[c].child > 0 /\ hist[c].master >= 0
    /\ \A c, d \in Calls :
          (c # d /\ Returned(c) /\ handle[c] # NULL /\ Returned(d) /\ handle[d] # NULL) =>
              handle[c][1] # handle[d][1] /\ handle[c][2] # handle[d][2]

\* two calls have returned handles, and the one that forked second
\* returned while the other was still in the parent branch after the fork
C19_Witness ==
    \E c, d \in Calls :
        /\ c # d /\ hist[c].child > 0 /\ hist[c].child < hist[d].child
        /\ Returned(d) /\ ValidHandle(handle[d])
        /\ ppc[c] \in {"branch", "check"}

====
